---- MODULE Spec2Model ----
(***************************************************************************)
(* Model of src/main.py (graph_tree): the command line front end `main`,   *)
(* the depth-bounded graph builder `build_dependency_graph` and the        *)
(* explicit-stack resolver `get_installation_order`.                       *)
(*                                                                         *)
(* Python strings that the program inspects character by character         *)
(* (package names, fixture lines, the max-depth text) are sequences of     *)
(* one-character strings; dictionaries are functions; lists are sequences; *)
(* a stack is a sequence whose top is its last element.                    *)
(***************************************************************************)
EXTENDS Integers, Sequences, FiniteSets, TLC

VARIABLES
    pc,             \* position of the single thread of control
    argv,           \* command line: [package, repo, mode, max_depth]
    fs,             \* file system: repo reference -> "none" | "file" | "dir"
    fixture,        \* lines of the fixture file (test mode)
    manifests,      \* package -> deps parsed from <repo>/<package>/Cargo.toml
    remote,         \* outcome of reading the single remote manifest
    package, repo, mode, max_depth,            \* locals of main / parameters
    test_graph, fetcher_func,                  \* parameters of the builder
    root_package, graph, build_stack, build_visited, deps,   \* builder locals
    dep_graph, root, order_stack, order_visited, processed, order, \* resolver
    stdout, stderr, exit_status,               \* observable output of main
    fetch_log,      \* history: packages handed to the fetch capability
    push_log,       \* history: (package, depth) pairs pushed by the builder
    net_opened      \* history: number of urlopen calls

vars == <<pc, argv, fs, fixture, manifests, remote, package, repo, mode,
          max_depth, test_graph, fetcher_func, root_package, graph,
          build_stack, build_visited, deps, dep_graph, root, order_stack,
          order_visited, processed, order, stdout, stderr, exit_status,
          fetch_log, push_log, net_opened>>

mainVars == <<argv, fs, fixture, package, repo, mode, stdout, exit_status>>
worldVars == <<manifests, remote>>
buildVars == <<max_depth, test_graph, fetcher_func, root_package, graph,
               build_stack, build_visited, deps, stderr, fetch_log, push_log,
               net_opened>>
orderVars == <<dep_graph, root, order_stack, order_visited, processed, order>>

----------------------------------------------------------------------------
(* Bounds of the model *)

\* longest dependency list drawn for an input graph, fixture or manifest
MaxDeps == 2
\* longest dependency list drawn where termination is checked
MaxDepsFair == 1
\* largest max_depth handed to the builder
MaxDepth == 3
\* most lines in a fixture file
MaxLines == 3

(* Package identifiers used as inputs *)
PkgA == <<"A">>
PkgB == <<"B">>
PkgC == <<"C">>
Nodes == {PkgA, PkgB, PkgC}

\* The outcome of a call: it raised an exception, or it returned a value
Raise(msg) == [raised |-> TRUE, value |-> <<>>, msg |-> msg]
Return(v) == [raised |-> FALSE, value |-> v, msg |-> ""]

\* test_graph=None, and a preloaded fixture passed as test_graph
NoTestGraph == [is_none |-> TRUE, dict |-> << >>]
TestGraph(d) == [is_none |-> FALSE, dict |-> d]

----------------------------------------------------------------------------
(* Generic helpers *)

Range(s) == {s[i] : i \in 1..Len(s)}

SeqsUpTo(S, n) == UNION {[1..k -> S] : k \in 0..n}

\* dictionaries with keys K \subseteq S and values in V
Dicts(S, V) == UNION {[K -> V] : K \in SUBSET S}

Front(s) == SubSeq(s, 1, Len(s) - 1)

Last(s) == s[Len(s)]

Reverse(s) == [i \in 1..Len(s) |-> s[Len(s) + 1 - i]]

RECURSIVE SelectNotIn(_, _)
\* the elements of s, in order, that are not in set S
SelectNotIn(s, S) ==
    IF s = <<>> THEN <<>>
    ELSE IF Head(s) \in S THEN SelectNotIn(Tail(s), S)
         ELSE <<Head(s)>> \o SelectNotIn(Tail(s), S)

\* index of the first occurrence of x in s (0 when absent)
IndexOf(s, x) ==
    IF x \in Range(s) THEN CHOOSE i \in 1..Len(s) : s[i] = x /\ \A j \in 1..(i-1) : s[j] # x
    ELSE 0

NoDuplicates(s) == \A i, j \in 1..Len(s) : s[i] = s[j] => i = j

----------------------------------------------------------------------------
(* get_installation_order, src/main.py:191-216 *)

\* graph.get(node, [])
GraphGet(g, node) == IF node \in DOMAIN g THEN g[node] ELSE <<>>

PushedDepsUnreversed(g, node, visited) == SelectNotIn(GraphGet(g, node), visited)

\* lines 206-208: the dependencies pushed, in push order
PushedDeps(g, node, visited) == SelectNotIn(Reverse(GraphGet(g, node)), visited)

AllDepsProcessedEager(g, node, visited) == TRUE

\* lines 204-209: all_deps_processed stays True iff nothing was pushed
AllDepsProcessed(g, node, visited) == PushedDeps(g, node, visited) = <<>>

MarkProcessedForgotten(done, node) == done

\* line 212: processed.add(node)
MarkProcessed(done, node) == done \cup {node}

PopProcessedStuck(stack) == stack

\* lines 199-201: a node already emitted is popped and discarded
PopProcessed(stack) == Front(stack)

\* lines 192-195: the locals before the loop
OrderEnter ==
    /\ pc = "order_entry"
    /\ order_visited' = {}
    /\ order' = <<>>
    /\ order_stack' = <<root>>
    /\ processed' = {}
    /\ pc' = "order_loop"
    /\ UNCHANGED <<dep_graph, root>>
    /\ UNCHANGED <<mainVars, worldVars, buildVars>>

\* one iteration of the while loop whose top of stack is already processed
OrderDiscard ==
    /\ pc = "order_loop"
    /\ order_stack # <<>>
    /\ Last(order_stack) \in processed
    /\ order_stack' = PopProcessed(order_stack)
    /\ UNCHANGED <<pc, order_visited, processed, order, dep_graph, root>>
    /\ UNCHANGED <<mainVars, worldVars, buildVars>>

\* one iteration of the while loop for a top of stack not yet processed
OrderVisit ==
    /\ pc = "order_loop"
    /\ order_stack # <<>>
    /\ Last(order_stack) \notin processed
    /\ LET node == Last(order_stack)
           visited1 == order_visited \cup {node}
           pushed == PushedDeps(dep_graph, node, visited1)
           stack1 == order_stack \o pushed
       IN /\ order_visited' = visited1
          /\ IF AllDepsProcessed(dep_graph, node, visited1)
             THEN /\ processed' = MarkProcessed(processed, node)
                  /\ order_stack' = Front(stack1)
                  /\ order' = Append(order, node)
             ELSE /\ order_stack' = stack1
                  /\ UNCHANGED <<processed, order>>
    /\ UNCHANGED <<pc, dep_graph, root>>
    /\ UNCHANGED <<mainVars, worldVars, buildVars>>

\* line 216: the loop ends on an empty stack and the order is returned
OrderReturn ==
    /\ pc = "order_loop"
    /\ order_stack = <<>>
    /\ pc' = "order_return"
    /\ UNCHANGED <<mainVars, worldVars, buildVars, orderVars>>

----------------------------------------------------------------------------
(* build_dependency_graph, src/main.py:115-160 *)

\* lines 115-118: lookup in the preloaded fixture, raising when absent
get_dependencies_test_mode(tg, pkg) ==
    IF pkg \in DOMAIN tg THEN Return(tg[pkg])
    ELSE Raise("Package not found in test graph.")

\* lines 169-176: the URL fetcher reads the one remote manifest, whatever
\* the package; lines 180-186: the path fetcher reads the package's manifest
fetcher(kind, pkg) ==
    IF kind = "url" THEN remote
    ELSE IF kind = "path"
         THEN (IF pkg \in DOMAIN manifests THEN Return(manifests[pkg])
               ELSE Raise("Cargo.toml not found"))
         ELSE Raise("TypeError")    \* fetcher_func=None is not callable

\* lines 144-147: the outcome of the fetch for `current` in this state
FetchOutcome(current) ==
    IF ~test_graph.is_none
    THEN get_dependencies_test_mode(test_graph.dict, current)
    ELSE fetcher(fetcher_func, current)

TryFetchStale(outcome, prev) == IF outcome.raised THEN prev ELSE outcome.value

\* lines 143-150: try / except Exception: deps = []
TryFetch(outcome, prev) == IF outcome.raised THEN <<>> ELSE outcome.value

RECURSIVE FirstNew(_, _)
\* the first occurrences, in order, of the elements of s that are not in S
FirstNew(s, S) ==
    IF s = <<>> THEN <<>>
    ELSE IF Head(s) \in S THEN FirstNew(Tail(s), S)
         ELSE <<Head(s)>> \o FirstNew(Tail(s), S \cup {Head(s)})

\* lines 140-141: graph[current] exists before the fetch
EnsureKey(g, current) ==
    IF current \in DOMAIN g THEN g ELSE g @@ (current :> <<>>)

LinkDepsNoDedup(lst, ds) == lst \o ds

\* lines 152-154: append each dep not already listed under current
LinkDeps(lst, ds) == lst \o FirstNew(ds, Range(lst))

ToPushAll(ds, visited) == ds

ToPushFirstOnly(ds, visited) ==
    IF FirstNew(ds, visited) = <<>> THEN <<>> ELSE <<Head(FirstNew(ds, visited))>>

\* lines 156-158: the deps that are pushed, in push order
ToPush(ds, visited) == FirstNew(ds, visited)

ShouldSkipNever(depth, md) == FALSE

ShouldSkipEarly(depth, md) == depth + 1 >= md

\* line 137: the depth bound
ShouldSkip(depth, md) == depth >= md

ZeroDepthGraphEmpty(r) == << >>

\* line 128: the graph returned for max_depth == 0
ZeroDepthGraph(r) == (r :> <<>>)

\* lines 135-158: one iteration of the while loop, on the builder's locals
\* st = [graph, stack, visited, deps]; f maps the popped package to the
\* outcome of its fetch
BuildIteration(st, f, md) ==
    LET current == Last(st.stack)[1]
        depth == Last(st.stack)[2]
        popped == Front(st.stack)
    IN IF ShouldSkip(depth, md)
       THEN [st EXCEPT !.stack = popped]
       ELSE LET g1 == EnsureKey(st.graph, current)
                ds == TryFetch(f[current], st.deps)
                pushed == ToPush(ds, st.visited)
            IN [graph |-> [g1 EXCEPT ![current] = LinkDeps(@, ds)],
                stack |-> popped \o [i \in 1..Len(pushed) |-> <<pushed[i], depth + 1>>],
                visited |-> st.visited \cup Range(ds),
                deps |-> ds]

\* lines 127-132
BuildEnter ==
    /\ pc = "build_entry"
    /\ IF max_depth = 0
       THEN /\ graph' = ZeroDepthGraph(root_package)
            /\ pc' = "build_return"
            /\ UNCHANGED <<build_stack, build_visited, push_log>>
       ELSE /\ graph' = << >>
            /\ build_stack' = << <<root_package, 0>> >>
            /\ build_visited' = {}
            /\ push_log' = << <<root_package, 0>> >>
            /\ pc' = "build_loop"
    /\ UNCHANGED <<max_depth, test_graph, fetcher_func, root_package, deps,
                   stderr, fetch_log, net_opened>>
    /\ UNCHANGED <<mainVars, worldVars, orderVars>>

BuildLocals == [graph |-> graph, stack |-> build_stack,
                visited |-> build_visited, deps |-> deps]

\* lines 135-138: a pair popped at depth >= max_depth is dropped
BuildSkip ==
    /\ pc = "build_loop"
    /\ build_stack # <<>>
    /\ ShouldSkip(Last(build_stack)[2], max_depth)
    /\ LET st1 == BuildIteration(BuildLocals, << >>, max_depth)
       IN /\ graph' = st1.graph
          /\ build_stack' = st1.stack
          /\ build_visited' = st1.visited
          /\ deps' = st1.deps
    /\ UNCHANGED <<pc, max_depth, test_graph, fetcher_func, root_package,
                   stderr, fetch_log, push_log, net_opened>>
    /\ UNCHANGED <<mainVars, worldVars, orderVars>>

\* lines 135-158: a pair popped at depth < max_depth is expanded
BuildExpand ==
    /\ pc = "build_loop"
    /\ build_stack # <<>>
    /\ ~ShouldSkip(Last(build_stack)[2], max_depth)
    /\ LET current == Last(build_stack)[1]
           st1 == BuildIteration(BuildLocals, (current :> FetchOutcome(current)), max_depth)
       IN /\ graph' = st1.graph
          /\ build_stack' = st1.stack
          /\ build_visited' = st1.visited
          /\ deps' = st1.deps
          /\ fetch_log' = Append(fetch_log, current)
          /\ stderr' = IF FetchOutcome(current).raised       \* line 149
                       THEN Append(stderr, <<"Warning", current>>)
                       ELSE stderr
          /\ push_log' = push_log \o SubSeq(st1.stack, Len(build_stack), Len(st1.stack))
          /\ net_opened' = IF test_graph.is_none /\ fetcher_func = "url"
                           THEN net_opened + 1 ELSE net_opened
    /\ UNCHANGED <<pc, max_depth, test_graph, fetcher_func, root_package>>
    /\ UNCHANGED <<mainVars, worldVars, orderVars>>

\* line 160: the loop ends on an empty stack and the graph is returned
BuildReturn ==
    /\ pc = "build_loop"
    /\ build_stack = <<>>
    /\ pc' = "build_return"
    /\ UNCHANGED <<mainVars, worldVars, buildVars, orderVars>>

RECURSIVE BuildLoop(_, _, _)
\* lines 134-160: the while loop run to completion from locals st
BuildLoop(st, f, md) ==
    IF st.stack = <<>> THEN st.graph
    ELSE BuildLoop(BuildIteration(st, f, md), f, md)

\* lines 127-160: the graph returned for a fetch function f
build_dependency_graph(r, md, f) ==
    IF md = 0 THEN ZeroDepthGraph(r)
    ELSE BuildLoop([graph |-> << >>, stack |-> << <<r, 0>> >>,
                    visited |-> {}, deps |-> <<>>], f, md)

----------------------------------------------------------------------------
(* Python string methods, on sequences of one-character strings *)

Whitespace == {" ", "\n"}
UpperChars == {"A", "B", "C", "X"}
LowerChars == {"a", "b", "c"}
DigitChars == {"0", "1", "2", "3"}

RECURSIVE str_lstrip(_)
str_lstrip(s) ==
    IF s # <<>> /\ Head(s) \in Whitespace THEN str_lstrip(Tail(s)) ELSE s

RECURSIVE str_rstrip(_)
str_rstrip(s) ==
    IF s # <<>> /\ Last(s) \in Whitespace THEN str_rstrip(Front(s)) ELSE s

\* str.strip()
str_strip(s) == str_rstrip(str_lstrip(s))

\* str.isupper(): some cased character, and no lower-case one
str_isupper(s) ==
    /\ \E i \in 1..Len(s) : s[i] \in UpperChars
    /\ \A i \in 1..Len(s) : s[i] \notin LowerChars

\* str.isalpha(): non-empty and only letters
str_isalpha(s) ==
    /\ s # <<>>
    /\ \A i \in 1..Len(s) : s[i] \in UpperChars \cup LowerChars

RECURSIVE str_split(_)
\* str.split(): the runs of non-whitespace characters
str_split(s) ==
    LET t == str_lstrip(s)
        n == IF \E i \in 1..Len(t) : t[i] \in Whitespace
             THEN (CHOOSE i \in 1..Len(t) :
                      t[i] \in Whitespace /\ \A j \in 1..(i-1) : t[j] \notin Whitespace) - 1
             ELSE Len(t)
    IN IF t = <<>> THEN <<>>
       ELSE <<SubSeq(t, 1, n)>> \o str_split(SubSeq(t, n + 1, Len(t)))

DigitValue(c) == CASE c = "0" -> 0 [] c = "1" -> 1 [] c = "2" -> 2 [] c = "3" -> 3

RECURSIVE DigitsValue(_)
DigitsValue(s) ==
    IF s = <<>> THEN 0 ELSE 10 * DigitsValue(Front(s)) + DigitValue(Last(s))

\* int(text): surrounding whitespace, an optional sign, then digits
int_parse(s) ==
    LET t == str_strip(s)
        signed == t # <<>> /\ Head(t) \in {"-", "+"}
        digits == IF signed THEN Tail(t) ELSE t
    IN IF digits # <<>> /\ \A i \in 1..Len(digits) : digits[i] \in DigitChars
       THEN Return(IF signed /\ Head(t) = "-" THEN 0 - DigitsValue(digits)
                   ELSE DigitsValue(digits))
       ELSE Raise("invalid literal for int() with base 10")

----------------------------------------------------------------------------
(* The command line and the file system *)

Flags == {"package", "repo", "mode", "max_depth"}

\* urlparse(repo).scheme
UrlScheme(r) ==
    CASE r = "http://h/Cargo.toml" -> "http"
      [] r = "https://h/Cargo.toml" -> "https"
      [] r = "ftp://h/x" -> "ftp"
      [] OTHER -> ""

\* os.path.abspath(repo), the working directory being /cwd
AbsPath(r) ==
    CASE r = "fixture.txt" -> "/cwd/fixture.txt"
      [] r = "ftp://h/x" -> "/cwd/ftp:/h/x"
      [] r = "http://h/Cargo.toml" -> "/cwd/http:/h/Cargo.toml"
      [] r = "https://h/Cargo.toml" -> "/cwd/https:/h/Cargo.toml"
      [] OTHER -> r

\* what the file system holds at a path
FsKind(files, r) ==
    IF AbsPath(r) \in DOMAIN files THEN files[AbsPath(r)] ELSE "none"

----------------------------------------------------------------------------
(* Validation, src/main.py:10-45 *)

\* lines 10-13
validate_package_name(name) ==
    IF name = <<>> \/ str_strip(name) = <<>>
    THEN Raise("Package name cannot be empty.")
    ELSE Return(str_strip(name))

\* lines 16-25
validate_repo_url_or_path(r, files) ==
    IF r = "" THEN Raise("Repository URL or path must be provided.")
    ELSE IF UrlScheme(r) \in {"http", "https"} THEN Return(r)
    ELSE IF FsKind(files, r) # "none" THEN Return(AbsPath(r))
    ELSE Raise("Repository path does not exist and is not a valid URL")

\* lines 28-32
validate_mode(m) ==
    IF m \notin {"online", "offline", "test"}
    THEN Raise("Mode must be one of online, offline, test")
    ELSE Return(m)

\* lines 35-45
validate_max_depth(depth_str) ==
    LET r == int_parse(depth_str)
    IN IF r.raised THEN Raise("Max depth must be an integer.")
       ELSE IF r.value < 0 THEN Raise("Max depth must be non-negative.")
       ELSE Return(r.value)

----------------------------------------------------------------------------
(* parse_test_graph, src/main.py:97-112 *)

IsValidNameLax(pkg) == TRUE

\* line 108: the name is non-empty, upper case and alphabetic
IsValidName(pkg) == pkg # <<>> /\ str_isupper(pkg) /\ str_isalpha(pkg)

\* line 111: graph[pkg] = deps
DictSet(g, k, v) == [x \in DOMAIN g \cup {k} |-> IF x = k THEN v ELSE g[x]]

RECURSIVE ParseLines(_, _)
\* lines 100-112: the loop over the lines of the file
ParseLines(lines, g) ==
    IF lines = <<>> THEN Return(g)
    ELSE LET line == str_strip(Head(lines))
             colon == IndexOf(line, ":")
             pkg == str_strip(SubSeq(line, 1, colon - 1))
             deps_part == SubSeq(line, colon + 1, Len(line))
         IN IF line = <<>> \/ Head(line) = "#"
            THEN ParseLines(Tail(lines), g)
            ELSE IF colon = 0
            THEN Raise("Invalid line in test graph")
            ELSE IF ~IsValidName(pkg)
            THEN Raise("Package name in test mode must be uppercase letters")
            ELSE ParseLines(Tail(lines), DictSet(g, pkg, str_split(deps_part)))

parse_test_graph(lines) == ParseLines(lines, << >>)

\* lines 163-188: which closure make_fetcher_func returns (mode is not used)
make_fetcher_func(r, m) ==
    IF UrlScheme(r) \in {"http", "https"} THEN "url" ELSE "path"

----------------------------------------------------------------------------
(* main, src/main.py:219-276 *)

\* lines 271-273: except ValueError
ExitWithError(msg) ==
    /\ stderr' = Append(stderr, <<"Error", msg>>)
    /\ exit_status' = 1
    /\ pc' = "exit"

\* lines 220-227: argparse rejects a missing flag or a mode outside choices
\* by printing the usage and exiting with status 2 (SystemExit)
MainParseArgs ==
    /\ pc = "main_entry"
    /\ IF argv.given # Flags \/ argv.mode \notin {"online", "offline", "test"}
       THEN /\ stderr' = Append(stderr, <<"usage">>)
            /\ exit_status' = 2
            /\ pc' = "exit"
       ELSE /\ pc' = "validate"
            /\ UNCHANGED <<stderr, exit_status>>
    /\ UNCHANGED <<argv, fs, fixture, package, repo, mode, stdout>>
    /\ UNCHANGED <<max_depth, test_graph, fetcher_func, root_package, graph,
                   build_stack, build_visited, deps, fetch_log, push_log,
                   net_opened>>
    /\ UNCHANGED <<worldVars, orderVars>>

\* lines 229-232: the four validations, in order
MainValidate ==
    /\ pc = "validate"
    /\ LET p == validate_package_name(argv.package)
           r == validate_repo_url_or_path(argv.repo, fs)
           m == validate_mode(argv.mode)
           d == validate_max_depth(argv.max_depth)
       IN IF p.raised \/ r.raised \/ m.raised \/ d.raised
          THEN /\ ExitWithError(IF p.raised THEN p.msg
                                ELSE IF r.raised THEN r.msg
                                ELSE IF m.raised THEN m.msg ELSE d.msg)
               /\ UNCHANGED <<package, repo, mode, max_depth>>
          ELSE /\ package' = p.value
               /\ repo' = r.value
               /\ mode' = m.value
               /\ max_depth' = d.value
               /\ pc' = "echo"
               /\ UNCHANGED <<stderr, exit_status>>
    /\ UNCHANGED <<argv, fs, fixture, stdout>>
    /\ UNCHANGED <<test_graph, fetcher_func, root_package, graph,
                   build_stack, build_visited, deps, fetch_log, push_log,
                   net_opened>>
    /\ UNCHANGED <<worldVars, orderVars>>

\* lines 234-238: the configuration echo
MainEcho ==
    /\ pc = "echo"
    /\ stdout' = Append(stdout, <<"Configuration:", package, repo, mode, max_depth>>)
    /\ pc' = IF mode = "test" THEN "load_fixture" ELSE "make_fetcher"
    /\ UNCHANGED <<argv, fs, fixture, package, repo, mode, exit_status>>
    /\ UNCHANGED <<worldVars, buildVars, orderVars>>

\* lines 240-249: test mode loads the fixture and calls the builder on it
MainLoadFixture ==
    /\ pc = "load_fixture"
    /\ LET tg == parse_test_graph(fixture)
       IN IF FsKind(fs, repo) # "file"
          THEN /\ ExitWithError("--repo must be a file in test mode")
               /\ UNCHANGED <<test_graph, fetcher_func, root_package>>
          ELSE IF tg.raised
          THEN /\ ExitWithError(tg.msg)
               /\ UNCHANGED <<test_graph, fetcher_func, root_package>>
          ELSE /\ test_graph' = TestGraph(tg.value)
               /\ fetcher_func' = "none"
               /\ root_package' = package
               /\ pc' = "build_entry"
               /\ UNCHANGED <<stderr, exit_status>>
    /\ UNCHANGED <<argv, fs, fixture, package, repo, mode, stdout>>
    /\ UNCHANGED <<max_depth, graph, build_stack, build_visited, deps,
                   fetch_log, push_log, net_opened>>
    /\ UNCHANGED <<worldVars, orderVars>>

\* lines 256-262: the other modes make a fetcher and call the builder on it
MainMakeFetcher ==
    /\ pc = "make_fetcher"
    /\ fetcher_func' = make_fetcher_func(repo, mode)
    /\ test_graph' = NoTestGraph
    /\ root_package' = package
    /\ pc' = "build_entry"
    /\ UNCHANGED <<max_depth, graph, build_stack, build_visited, deps, stderr,
                   fetch_log, push_log, net_opened>>
    /\ UNCHANGED <<mainVars, worldVars, orderVars>>

\* lines 244 and 257: the builder's result is bound to dep_graph; line 251:
\* test mode calls the resolver on it
MainAfterBuild ==
    /\ pc = "build_return"
    /\ dep_graph' = graph
    /\ IF mode = "test"
       THEN /\ root' = package
            /\ pc' = "order_entry"
       ELSE /\ pc' = "print_graph"
            /\ UNCHANGED root
    /\ UNCHANGED <<order_stack, order_visited, processed, order>>
    /\ UNCHANGED <<mainVars, worldVars, buildVars>>

\* lines 252-254: the numbered installation order
MainPrintOrder ==
    /\ pc = "order_return"
    /\ stdout' = Append(stdout, <<"Installation order (dependencies first):", order>>)
    /\ pc' = "print_graph"
    /\ UNCHANGED <<argv, fs, fixture, package, repo, mode, exit_status>>
    /\ UNCHANGED <<worldVars, buildVars, orderVars>>

\* lines 264-269: the graph listing; main returns and the status is 0
MainPrintGraph ==
    /\ pc = "print_graph"
    /\ stdout' = Append(stdout, <<"Dependency graph (up to max depth):", dep_graph>>)
    /\ exit_status' = 0
    /\ pc' = "exit"
    /\ UNCHANGED <<argv, fs, fixture, package, repo, mode>>
    /\ UNCHANGED <<worldVars, buildVars, orderVars>>

----------------------------------------------------------------------------
(* Initial states *)

MainIdle ==
    /\ argv = [given |-> {}, package |-> <<>>, repo |-> "", mode |-> "",
               max_depth |-> <<>>]
    /\ fs = << >>
    /\ fixture = <<>>
    /\ package = <<>>
    /\ repo = ""
    /\ mode = ""
    /\ stdout = <<>>
    /\ exit_status = -1

BuildIdle ==
    /\ graph = << >>
    /\ build_stack = <<>>
    /\ build_visited = {}
    /\ deps = <<>>
    /\ stderr = <<>>
    /\ fetch_log = <<>>
    /\ push_log = <<>>
    /\ net_opened = 0

OrderIdle ==
    /\ order_stack = <<>>
    /\ order_visited = {}
    /\ processed = {}
    /\ order = <<>>

DepLists == SeqsUpTo(Nodes, MaxDeps)

OrderParamsIdle == dep_graph = << >> /\ root = <<>>

BuildParamsIdle ==
    /\ max_depth = 0 /\ test_graph = NoTestGraph /\ fetcher_func = "none"
    /\ root_package = <<>>

WorldIdle == manifests = << >> /\ remote = Raise("URLError")

\* get_installation_order called on a graph over Nodes (keys may be missing)
InitOrderOn(roots) ==
    /\ pc = "order_entry"
    /\ dep_graph \in Dicts(Nodes, DepLists)
    /\ root \in roots
    /\ OrderIdle
    /\ MainIdle /\ BuildIdle /\ BuildParamsIdle /\ WorldIdle

InitOrder == InitOrderOn(Nodes)

NextOrder == OrderEnter \/ OrderDiscard \/ OrderVisit \/ OrderReturn

SpecOrder == InitOrder /\ [][NextOrder]_vars

\* The loop of get_installation_order is never abandoned part-way.  Every
\* (graph, root) pair is a renaming of one whose root is PkgA.
SpecOrderFair == InitOrderOn({PkgA}) /\ [][NextOrder]_vars /\ WF_vars(NextOrder)

\* build_dependency_graph called with a fetch capability over Nodes with
\* dependency lists in lists: a preloaded fixture, per-package manifests
\* under a path, or the one remote manifest.  Every input is a renaming of
\* one whose root is PkgA.
InitBuildOn(lists) ==
    /\ pc = "build_entry"
    /\ root_package = PkgA
    /\ max_depth \in 0..MaxDepth
    /\ \/ /\ test_graph \in {TestGraph(d) : d \in Dicts(Nodes, lists)}
          /\ fetcher_func = "none"
          /\ WorldIdle
       \/ /\ test_graph = NoTestGraph
          /\ fetcher_func = "path"
          /\ manifests \in Dicts(Nodes, lists)
          /\ remote = Raise("URLError")
       \/ /\ test_graph = NoTestGraph
          /\ fetcher_func = "url"
          /\ manifests = << >>
          /\ remote \in {Raise("URLError")} \cup {Return(d) : d \in lists}
    /\ BuildIdle
    /\ MainIdle /\ OrderIdle /\ OrderParamsIdle

InitBuild == InitBuildOn(DepLists)

NextBuild == BuildEnter \/ BuildSkip \/ BuildExpand \/ BuildReturn

SpecBuild == InitBuild /\ [][NextBuild]_vars

\* the loop of build_dependency_graph is never abandoned part-way
SpecBuildFair ==
    InitBuildOn(SeqsUpTo(Nodes, MaxDepsFair)) /\ [][NextBuild]_vars /\ WF_vars(NextBuild)

(* The command lines and the worlds main is run in *)

PackageTexts == {<<>>, <<" ">>, <<"A">>, <<" ", "B", " ">>}

RepoTexts == {"", "http://h/Cargo.toml", "https://h/Cargo.toml", "ftp://h/x",
              "fixture.txt", "/srv/repo"}

ModeTexts == {"online", "offline", "test", "fast"}

DepthTexts == {<<>>, <<"a", "b">>, <<"-", "1">>, <<"0">>, <<"1">>, <<" ", "2">>}

AbsPaths == {"/cwd/fixture.txt", "/srv/repo", "/cwd/ftp:/h/x"}

\* "A: B C", "B: C", "C:", a blank line, a comment, and malformed lines:
\* "X" (no colon), "a:B" (lower case), "A1:" (not alphabetic)
FixtureLines ==
    { <<"A", ":", " ", "B", " ", "C">>, <<"B", ":", " ", "C">>, <<"C", ":">>,
      <<" ">>, <<"#", "X">>,
      <<"X">>, <<"a", ":", "B">>, <<"A", "1", ":">> }

ManifestWorlds ==
    { << >>,
      (PkgA :> <<PkgB>>) @@ (PkgB :> <<PkgA>>),
      (PkgA :> <<PkgB, PkgB, PkgC>>) @@ (PkgC :> <<>>) }

RemoteWorlds ==
    { Raise("URLError"), Return(<<>>), Return(<<PkgB>>), Return(<<PkgA, PkgB>>) }

\* the four validations accept the command line
ArgsValid(a, files) ==
    /\ a.given = Flags
    /\ a.mode \in {"online", "offline", "test"}
    /\ ~validate_package_name(a.package).raised
    /\ ~validate_repo_url_or_path(a.repo, files).raised
    /\ ~validate_max_depth(a.max_depth).raised

\* main started on a command line; the parts of the world that the run
\* cannot read are left empty
InitMain ==
    /\ pc = "main_entry"
    /\ argv \in [given : {Flags} \cup {Flags \ {f} : f \in Flags},
                package : PackageTexts, repo : RepoTexts, mode : ModeTexts,
                max_depth : DepthTexts]
    /\ argv.given # Flags =>
          /\ argv.package = <<"A">> /\ argv.repo = "fixture.txt"
          /\ argv.mode = "test" /\ argv.max_depth = <<"1">>
    /\ fs \in [AbsPaths -> {"none", "file", "dir"}]
    /\ \A path \in AbsPaths : path # AbsPath(argv.repo) => fs[path] = "none"
    /\ fixture \in IF /\ ArgsValid(argv, fs) /\ argv.mode = "test"
                     /\ FsKind(fs, argv.repo) = "file"
                  THEN SeqsUpTo(FixtureLines, MaxLines) ELSE {<<>>}
    /\ manifests \in IF /\ ArgsValid(argv, fs) /\ argv.mode # "test"
                       /\ UrlScheme(argv.repo) \notin {"http", "https"}
                       /\ FsKind(fs, argv.repo) = "dir"
                    THEN ManifestWorlds ELSE {<< >>}
    /\ remote \in IF /\ ArgsValid(argv, fs) /\ argv.mode # "test"
                    /\ UrlScheme(argv.repo) \in {"http", "https"}
                 THEN RemoteWorlds ELSE {Raise("URLError")}
    /\ package = <<>> /\ repo = "" /\ mode = ""
    /\ stdout = <<>> /\ exit_status = -1
    /\ BuildIdle /\ BuildParamsIdle
    /\ OrderIdle /\ OrderParamsIdle

NextMain ==
    \/ MainParseArgs \/ MainValidate \/ MainEcho \/ MainLoadFixture
    \/ MainMakeFetcher \/ MainAfterBuild \/ MainPrintOrder \/ MainPrintGraph
    \/ BuildEnter \/ BuildSkip \/ BuildExpand \/ BuildReturn
    \/ OrderEnter \/ OrderDiscard \/ OrderVisit \/ OrderReturn

SpecMain == InitMain /\ [][NextMain]_vars

----------------------------------------------------------------------------
(* Vocabulary of the properties *)

Succ(g, S) == S \cup UNION {Range(GraphGet(g, n)) : n \in S}

RECURSIVE Closure(_, _)
Closure(g, S) == IF Succ(g, S) = S THEN S ELSE Closure(g, Succ(g, S))

\* the nodes reachable from r along the edges of g, r included
Reach(g, r) == Closure(g, {r})

\* the nodes reachable from a by at least one edge
DependsOn(g, a) == Closure(g, Range(GraphGet(g, a)))

Acyclic(g) == \A n \in DOMAIN g : n \notin DependsOn(g, n)

\* b occurs in s, and before a
Precedes(s, b, a) == IndexOf(s, b) > 0 /\ IndexOf(s, a) > 0 /\ IndexOf(s, b) < IndexOf(s, a)

OrderDone == pc = "order_return"

BuildDone == pc = "build_return"

Count(s, x) == Cardinality({i \in 1..Len(s) : s[i] = x})

----------------------------------------------------------------------------
(* Properties of get_installation_order *)

\* C1: on an acyclic graph the returned order lists, for every edge A -> B
\* with A reachable from the root, B before A.
C1_DependenciesBeforeDependents ==
    (OrderDone /\ Acyclic(dep_graph)) =>
        \A a \in Reach(dep_graph, root) :
            \A b \in Range(GraphGet(dep_graph, a)) : Precedes(order, b, a)

C1_Witness ==
    /\ OrderDone
    /\ Acyclic(dep_graph)
    /\ dep_graph = (PkgA :> <<PkgB, PkgC>>) @@ (PkgB :> <<PkgC>>)
    /\ root = PkgA
    /\ order = <<PkgC, PkgB, PkgA>>

\* C2 as stated: on any graph, cyclic ones included, every node of the
\* returned order comes after all of its transitive dependencies.
C2_AfterAllTransitiveDependencies ==
    OrderDone =>
        \A a \in Range(order) :
            \A b \in DependsOn(dep_graph, a) \ {a} : Precedes(order, b, a)

\* C2 as amended: on any graph, every node of the returned order comes
\* after each of its listed dependencies that does not depend back on it.
C2_AfterDependenciesOffCycle ==
    OrderDone =>
        \A a \in Range(order) :
            \A b \in Range(GraphGet(dep_graph, a)) :
                a \notin Reach(dep_graph, b) => Precedes(order, b, a)

C2_Witness ==
    /\ OrderDone
    /\ ~Acyclic(dep_graph)
    /\ \E a \in Range(order) : \E b \in Range(GraphGet(dep_graph, a)) :
          /\ a \notin Reach(dep_graph, b)
          /\ a \in DependsOn(dep_graph, a)
          /\ Precedes(order, b, a)

\* C3: the returned order has no duplicates and its elements are exactly
\* the nodes reachable from the root.
C3_ExactlyTheReachableNodesOnce ==
    OrderDone =>
        /\ NoDuplicates(order)
        /\ Range(order) = Reach(dep_graph, root)

C3_Witness ==
    /\ OrderDone
    /\ root = PkgA
    /\ dep_graph = (PkgA :> <<PkgB, PkgA>>) @@ (PkgC :> <<PkgA>>)
    /\ order = <<PkgB, PkgA>>

\* C4: the resolver terminates with an empty stack on every graph.
C4_ResolverTerminates == <>(OrderDone /\ order_stack = <<>>)

C4_Witness ==
    /\ OrderDone
    /\ order_stack = <<>>
    /\ PkgA \in Range(GraphGet(dep_graph, PkgA))
    /\ PkgB \in Range(GraphGet(dep_graph, PkgC))
    /\ PkgC \in Range(GraphGet(dep_graph, PkgB))
    /\ Len(order) = 3

----------------------------------------------------------------------------
(* Properties of build_dependency_graph *)

\* the outcome of the fetch capability on every package, in this run
FetchFn == [p \in Nodes |-> FetchOutcome(p)]

\* the number of pushes of p after the initial push of the root
PushesOf(p) == Cardinality({i \in 2..Len(push_log) : push_log[i][1] = p})

\* C5: with max_depth = 0 the builder returns exactly {root: []} and the
\* fetch capability is never invoked.
C5_ZeroDepthReturnsRootOnly ==
    (BuildDone /\ max_depth = 0) =>
        /\ graph = (root_package :> <<>>)
        /\ fetch_log = <<>>
        /\ net_opened = 0
        /\ stderr = <<>>

C5_Witness ==
    /\ BuildDone
    /\ max_depth = 0
    /\ ~FetchOutcome(root_package).raised
    /\ FetchOutcome(root_package).value = <<PkgB, PkgC>>
    /\ graph = (PkgA :> <<>>)

\* C6: a failing fetch for X does not abort the build: the returned graph
\* has X with the empty list, has a key for every expanded node, and is the
\* graph that results when X's fetch returns the empty list instead.
C6_FailureIsolation ==
    (BuildDone /\ max_depth >= 1) =>
        \A X \in Range(fetch_log) :
            FetchOutcome(X).raised =>
                /\ X \in DOMAIN graph
                /\ graph[X] = <<>>
                /\ Range(fetch_log) \subseteq DOMAIN graph
                /\ graph = build_dependency_graph(root_package, max_depth,
                                [FetchFn EXCEPT ![X] = Return(<<>>)])

C6_Witness ==
    /\ BuildDone
    /\ max_depth = 2
    /\ ~test_graph.is_none
    /\ test_graph.dict = (PkgA :> <<PkgB, PkgC>>) @@ (PkgB :> <<PkgA>>)
    /\ fetch_log = <<PkgA, PkgC, PkgB>>
    /\ graph = (PkgA :> <<PkgB, PkgC>>) @@ (PkgC :> <<>>) @@ (PkgB :> <<PkgA>>)
    /\ stderr = << <<"Warning", PkgC>> >>

\* C7: during one run of the builder every package is expanded (its
\* dependencies fetched) at most once.
C7_ExpandedAtMostOnce == \A p \in Nodes : Count(fetch_log, p) <= 1

\* C8: the builder terminates, having pushed every package at most once
\* after the initial push of the root, each such push adding the package to
\* the visited set.
C8_BuilderTerminates ==
    <>(/\ BuildDone
       /\ build_stack = <<>>
       /\ \A p \in Nodes : /\ PushesOf(p) <= 1
                            /\ PushesOf(p) = 1 <=> p \in build_visited)

C8_Witness ==
    /\ BuildDone
    /\ max_depth = 3
    /\ ~test_graph.is_none
    /\ test_graph.dict = (PkgA :> <<PkgB>>) @@ (PkgB :> <<PkgA>>)
    /\ push_log = << <<PkgA, 0>>, <<PkgB, 1>>, <<PkgA, 2>> >>
    /\ fetch_log = <<PkgA, PkgB, PkgA>>

----------------------------------------------------------------------------
(* Properties of main *)

Exited == pc = "exit"

\* no traversal has begun: the builder was not entered and nothing fetched
NoTraversal ==
    /\ graph = << >>
    /\ push_log = <<>>
    /\ fetch_log = <<>>
    /\ net_opened = 0

EmptyPackage == str_strip(argv.package) = <<>>

BadDepth ==
    \/ int_parse(argv.max_depth).raised
    \/ int_parse(argv.max_depth).value < 0

DisallowedMode == argv.mode \notin {"online", "offline", "test"}

BadRepo ==
    /\ UrlScheme(argv.repo) \notin {"http", "https"}
    /\ FsKind(fs, argv.repo) = "none"

\* C9: every validation error (empty package, bad max depth, disallowed
\* mode, repository neither URL nor existing path) ends the process with
\* status 1 before any traversal begins.
C9_ValidationErrorsExitOne ==
    (argv.given = Flags /\ (EmptyPackage \/ BadDepth \/ DisallowedMode \/ BadRepo)) =>
        /\ NoTraversal
        /\ Exited => exit_status = 1

\* the line is neither blank nor a comment, and has no colon or has a name
\* before the colon that is not upper-case alphabetic
Malformed(text) ==
    LET line == str_strip(text)
        name == str_strip(SubSeq(line, 1, IndexOf(line, ":") - 1))
    IN /\ line # <<>>
       /\ Head(line) # "#"
       /\ \/ ":" \notin Range(line)
          \/ \E i \in 1..Len(name) : name[i] \notin UpperChars
          \/ name = <<>>

\* a test-mode run, on a valid command line, whose fixture file has a
\* malformed line
MalformedFixtureRun ==
    /\ ArgsValid(argv, fs)
    /\ argv.mode = "test"
    /\ FsKind(fs, argv.repo) = "file"
    /\ \E i \in 1..Len(fixture) : Malformed(fixture[i])

\* C10 as stated: with a malformed fixture line the process exits with
\* status 1 and nothing is ever printed to standard output.
C10_NoOutputOnMalformedFixture ==
    MalformedFixtureRun =>
        /\ stdout = <<>>
        /\ Exited => exit_status = 1

\* C10 as amended: with a malformed fixture line the process exits with
\* status 1 having printed only the configuration echo; no traversal is
\* made and neither the installation order nor the graph is printed.
C10_OnlyConfigurationEchoed ==
    MalformedFixtureRun =>
        /\ Len(stdout) <= 1
        /\ \A i \in 1..Len(stdout) : stdout[i][1] = "Configuration:"
        /\ NoTraversal
        /\ Exited => (exit_status = 1 /\ Len(stdout) = 1)

C10_Witness ==
    /\ Exited
    /\ MalformedFixtureRun
    /\ fixture = << <<"A", ":", " ", "B", " ", "C">>, <<"X">> >>
    /\ exit_status = 1
    /\ Len(stdout) = 1
    /\ stderr = << <<"Error", "Invalid line in test graph">> >>

\* C11: the network is opened only when the repository reference is an
\* http(s) URL and the mode is online; never in offline or test mode.
C11_NetworkOnlyWhenUrlAndOnline ==
    net_opened > 0 =>
        /\ UrlScheme(argv.repo) \in {"http", "https"}
        /\ argv.mode = "online"

\* the fixture "A: B C" / "B: C" / "C:", root A, max depth 2, in test mode
ScenarioRun ==
    /\ ArgsValid(argv, fs)
    /\ argv.mode = "test"
    /\ FsKind(fs, argv.repo) = "file"
    /\ argv.package = <<"A">>
    /\ argv.max_depth = <<" ", "2">>
    /\ fixture = << <<"A", ":", " ", "B", " ", "C">>, <<"B", ":", " ", "C">>,
                    <<"C", ":">> >>

ScenarioGraph == (PkgA :> <<PkgB, PkgC>>) @@ (PkgB :> <<PkgC>>) @@ (PkgC :> <<>>)

\* C12: in the scenario the builder returns {A: [B, C], B: [C], C: []} and
\* the resolver returns [C, B, A] on it.
C12_Scenario ==
    ScenarioRun =>
        /\ pc = "build_return" => graph = ScenarioGraph
        /\ pc \in {"order_entry", "order_loop"} =>
              (dep_graph = ScenarioGraph /\ root = PkgA)
        /\ pc \in {"order_return", "print_graph"} => order = <<PkgC, PkgB, PkgA>>
        /\ Exited => /\ exit_status = 0
                     /\ dep_graph = ScenarioGraph
                     /\ order = <<PkgC, PkgB, PkgA>>

C12_Witness ==
    /\ ScenarioRun
    /\ Exited
    /\ exit_status = 0
    /\ max_depth = 2
    /\ fetch_log = <<PkgA, PkgC, PkgB>>
    /\ graph = ScenarioGraph
    /\ order = <<PkgC, PkgB, PkgA>>
    /\ Len(stdout) = 3

----------------------------------------------------------------------------
(* Further properties of build_dependency_graph *)

\* the packages pushed at a depth in the set ds
PushedAt(ds) == {push_log[i][1] : i \in {j \in 1..Len(push_log) : push_log[j][2] \in ds}}

\* the packages pushed, and so later popped, at a depth >= max_depth
Skipped == {push_log[i][1] : i \in {j \in 1..Len(push_log) : push_log[j][2] >= max_depth}}

\* the edges of the fetch relation out of p (none when the fetch fails)
FetchEdges(p) == IF FetchOutcome(p).raised THEN {} ELSE Range(FetchOutcome(p).value)

RECURSIVE Within(_, _)
\* the packages reachable from those of S by at most k edges
Within(S, k) ==
    IF k = 0 THEN S ELSE Within(S \cup UNION {FetchEdges(p) : p \in S}, k - 1)

RECURSIVE FirstOccurrences(_)
\* s without the later occurrences of its elements
FirstOccurrences(s) ==
    IF s = <<>> THEN <<>>
    ELSE IF Last(s) \in Range(Front(s)) THEN FirstOccurrences(Front(s))
         ELSE Append(FirstOccurrences(Front(s)), Last(s))

\* C13 as stated: when the builder returns, the root and every member of
\* the visited set are keys of the graph.
C13_EveryPushedIsKey ==
    (BuildDone /\ max_depth >= 1) =>
        ({root_package} \cup build_visited) \subseteq DOMAIN graph

\* C13 as amended: when the builder returns, the keys of the graph are
\* exactly the packages pushed at a depth below max_depth; a package pushed
\* only at depth max_depth is visited but is not a key.
C13_PushedBelowBoundIsKey ==
    (BuildDone /\ max_depth >= 1) =>
        /\ DOMAIN graph = PushedAt(0..(max_depth - 1))
        /\ root_package \in DOMAIN graph
        /\ \A p \in build_visited \ DOMAIN graph : p \in PushedAt({max_depth})

C13_Witness ==
    /\ BuildDone
    /\ max_depth = 2
    /\ ~test_graph.is_none
    /\ test_graph.dict = (PkgA :> <<PkgB>>) @@ (PkgB :> <<PkgC>>) @@ (PkgC :> <<PkgA>>)
    /\ build_visited = {PkgB, PkgC}
    /\ graph = (PkgA :> <<PkgB>>) @@ (PkgB :> <<PkgC>>)
    /\ push_log = << <<PkgA, 0>>, <<PkgB, 1>>, <<PkgC, 2>> >>

\* C14: a package popped at depth >= max_depth never has its dependencies
\* fetched during the build and has no non-empty list in the returned graph.
C14_SkippedNeverFetched ==
    (BuildDone /\ max_depth >= 1) =>
        \A p \in Skipped :
            /\ p \notin Range(fetch_log)
            /\ GraphGet(graph, p) = <<>>

\* C15: every key of the returned graph was expanded at a stack depth below
\* max_depth and is reachable from the root by at most max_depth - 1 edges
\* of the fetch relation.
C15_KeysWithinDepth ==
    (BuildDone /\ max_depth >= 1) =>
        \A k \in DOMAIN graph :
            /\ k \in Range(fetch_log)
            /\ k \in PushedAt(0..(max_depth - 1))
            /\ k \in Within({root_package}, max_depth - 1)

C15_Witness ==
    /\ BuildDone
    /\ max_depth = 2
    /\ test_graph.is_none
    /\ fetcher_func = "path"
    /\ manifests = (PkgA :> <<PkgB, PkgB>>) @@ (PkgB :> <<PkgC>>) @@ (PkgC :> <<PkgA>>)
    /\ DOMAIN graph = {PkgA, PkgB}
    /\ PkgC \notin Within({PkgA}, 1)

\* C16: for every key k, graph[k] has no duplicates and is the sequence of
\* first occurrences of what fetch(k) returned, or empty if fetch(k) failed.
C16_ListsAreFirstOccurrences ==
    (BuildDone /\ max_depth >= 1) =>
        \A k \in DOMAIN graph :
            /\ NoDuplicates(graph[k])
            /\ graph[k] = IF FetchOutcome(k).raised THEN <<>>
                          ELSE FirstOccurrences(FetchOutcome(k).value)
            /\ Range(graph[k]) \subseteq FetchEdges(k)

C16_Witness ==
    /\ BuildDone
    /\ max_depth = 3
    /\ ~test_graph.is_none
    /\ test_graph.dict = (PkgA :> <<PkgB, PkgB>>) @@ (PkgB :> <<PkgC, PkgA>>)
    /\ fetch_log = <<PkgA, PkgB, PkgA, PkgC>>
    /\ graph = (PkgA :> <<PkgB>>) @@ (PkgB :> <<PkgC, PkgA>>) @@ (PkgC :> <<>>)

----------------------------------------------------------------------------
(* Further properties of get_installation_order *)

RECURSIVE DfsVisit(_, _, _)
RECURSIVE DfsDeps(_, _, _)
\* the recursive depth-first traversal: enter the node, traverse its
\* dependencies from left to right, then emit the node
DfsVisit(g, node, st) ==
    LET inside == DfsDeps(g, GraphGet(g, node), [st EXCEPT !.entered = @ \cup {node}])
    IN [inside EXCEPT !.out = Append(@, node)]

\* the dependencies ds in order, skipping those already entered
DfsDeps(g, ds, st) ==
    IF ds = <<>> THEN st
    ELSE DfsDeps(g, Tail(ds),
                 IF Head(ds) \in st.entered THEN st ELSE DfsVisit(g, Head(ds), st))

\* the post-order of the recursive traversal from r
PostOrder(g, r) == DfsVisit(g, r, [entered |-> {}, out |-> <<>>]).out

\* C17: the order returned by the explicit-stack resolver is the post-order
\* of the recursive depth-first traversal from the root.
C17_EqualsRecursivePostOrder ==
    OrderDone => order = PostOrder(dep_graph, root)

C17_Witness ==
    /\ OrderDone
    /\ root = PkgA
    /\ dep_graph = (PkgA :> <<PkgB, PkgC>>) @@ (PkgB :> <<PkgA>>) @@ (PkgC :> <<PkgB, PkgC>>)
    /\ order = <<PkgB, PkgC, PkgA>>

\* C19: the root is the last element of the returned order, and while the
\* resolver runs the root is on the stack only at the bottom.
C19_RootLastAndAtBottom ==
    /\ pc = "order_loop" =>
          \A i \in 1..Len(order_stack) : order_stack[i] = root <=> i = 1
    /\ OrderDone => (order # <<>> /\ Last(order) = root)

C19_Witness ==
    /\ OrderDone
    /\ root = PkgB
    /\ dep_graph = (PkgA :> <<PkgB, PkgC>>) @@ (PkgB :> <<PkgB, PkgA>>) @@ (PkgC :> <<PkgB>>)
    /\ order = <<PkgC, PkgA, PkgB>>

----------------------------------------------------------------------------
(* The builder on layered fixtures over five packages *)

PkgD == <<"D">>
PkgE == <<"E">>

\* duplicate-free dependency lists over the packages of S
ListsOver(S) == {l \in SeqsUpTo(S, MaxDeps) : NoDuplicates(l)}

\* the fixtures over A..E in which every package lists only later packages
LayeredDicts ==
    { (PkgA :> a) @@ (PkgB :> b) @@ (PkgC :> c) @@ (PkgD :> d) @@ (PkgE :> <<>>) :
        a \in ListsOver({PkgB, PkgC, PkgD, PkgE}), b \in ListsOver({PkgC, PkgD, PkgE}),
        c \in ListsOver({PkgD, PkgE}), d \in ListsOver({PkgE}) }

\* build_dependency_graph called on a layered fixture, in which no fetch fails
InitBuildLayered ==
    /\ pc = "build_entry"
    /\ root_package = PkgA
    /\ max_depth \in 0..MaxDepth
    /\ test_graph \in {TestGraph(d) : d \in LayeredDicts}
    /\ fetcher_func = "none"
    /\ WorldIdle
    /\ BuildIdle
    /\ MainIdle /\ OrderIdle /\ OrderParamsIdle

SpecBuildWide == (InitBuild \/ InitBuildLayered) /\ [][NextBuild]_vars

\* no fetch fails on a package reachable from the root
NoFetchFails ==
    \A p \in Within({root_package}, Cardinality(Nodes \cup {PkgD, PkgE})) :
        ~FetchOutcome(p).raised

\* C18 as stated: with no failing fetch, every package whose shortest path
\* from the root has fewer than max_depth edges is a key of the graph.
C18_CompleteUpToDepth ==
    (BuildDone /\ max_depth >= 1 /\ NoFetchFails) =>
        Within({root_package}, max_depth - 1) \subseteq DOMAIN graph

\* C18 as amended: with no failing fetch, every package whose shortest path
\* from the root has fewer than max_depth edges and at most one edge (the
\* root and, for max_depth >= 2, its direct dependencies) is a key.
C18_CompleteUpToOneEdge ==
    (BuildDone /\ max_depth >= 1 /\ NoFetchFails) =>
        Within({root_package}, IF max_depth >= 2 THEN 1 ELSE 0) \subseteq DOMAIN graph

C18_Witness ==
    /\ BuildDone
    /\ max_depth = 3
    /\ NoFetchFails
    /\ test_graph.dict = (PkgA :> <<PkgB, PkgC>>) @@ (PkgB :> <<PkgE>>)
                         @@ (PkgC :> <<PkgD>>) @@ (PkgD :> <<PkgE>>) @@ (PkgE :> <<>>)
    /\ DOMAIN graph = {PkgA, PkgB, PkgC, PkgD}
    /\ PkgE \in Within({PkgA}, 2)
    /\ push_log = << <<PkgA, 0>>, <<PkgB, 1>>, <<PkgC, 1>>, <<PkgD, 2>>, <<PkgE, 3>> >>

====
